---- MODULE Spec2Model ----
(***************************************************************************)
(* Voice streaming subsystem of the AI Encyclopedia Assistant front end:   *)
(*   - PCMPlayerProcessor   (worklets/pcm-player.js,   src/unnamed/part_003)*)
(*   - PCMRecorderProcessor (worklets/pcm-recorder.js, src/unnamed/part_003)*)
(*   - VoiceManager         (src/frontend/js/voice.js)                      *)
(*                                                                         *)
(* Floating point samples are exact rationals <<num, den>> in lowest terms *)
(* (every value the code computes here is exactly representable).          *)
(* Every sample of an inbound frame carries the number of the frame it     *)
(* came from (src), a history tag the program does not have.               *)
(***************************************************************************)
EXTENDS Integers, Sequences, FiniteSets, TLC

\* ------------------------------------------------------------------ bounds
\* inbound binary frames received over one behaviour
MaxFrames == 2
\* samples in one inbound frame (the contract fixes no length)
MaxFrameLen == 2
\* largest output block the playback callback asks for
MaxPull == 2
\* clearPlayback() calls over one behaviour
MaxClears == 2

\* capture callbacks with input over one behaviour
MaxCallbacks == 40
\* startListening() calls over one behaviour
MaxStarts == 1

\* device sample rates (the global sampleRate of the capture AudioContext)
\* WebSocket objects one session makes over one behaviour (the first and its reconnects)
MaxSockets == 3
\* toggle() calls that reach startListening() over one behaviour
MaxStartCalls == 2
\* chunks the recorders post and sendText() calls over one behaviour
MaxPosts == 1
MaxTexts == 1
\* text messages received over one behaviour
MaxEvents == 2
\* input samples fed to the recorder in blocks of chosen lengths; 44100 Hz input
\* reaches a whole multiple of its ratio at 441 samples
MaxInput == 450
\* handlers of the tab bar run in one session, and milliseconds the clock shows
MaxTabCalls == 4
MaxNow == 3
\* the block lengths tried
BlockLengths == {1, 63, 128, 441}

Rates == {16000, 32000, 44100, 48000}
\* device rates with those below the target rate
DeviceRates == Rates \cup {8000, 22050}

\* The capture side holds a number x as the integer 4x: microphone samples are
\* multiples of 0.25, so every number the recorder computes is a multiple of 0.25.
\* The values the capture input cycles through: 0, 0.25, 0.5, 1, 1.5, -0.25, -1, -2
MicTone == <<0, 1, 2, 4, 6, -1, -4, -8>>

\* the k-th input sample (k >= 0) the microphone delivers to one recorder
MicSample(k) == MicTone[(k % Len(MicTone)) + 1]

\* int16 sample values the inbound frames cycle through
TestTone == <<16384, 0, -32768, 32767, -1>>

\* the samples of the id-th inbound frame when it holds len samples
InboundSamples(id, len) ==
    [i \in 1..len |-> TestTone[((2 * id + i) % Len(TestTone)) + 1]]

\* ------------------------------------------------------------ arithmetic
Abs(x) == IF x < 0 THEN -x ELSE x

RECURSIVE GCD(_, _)
GCD(a, b) == IF b = 0 THEN a ELSE GCD(b, a % b)

\* the rational n/d (d > 0) in lowest terms
Frac(n, d) == LET g == GCD(Abs(n), d) IN <<n \div g, d \div g>>

Zero == Frac(0, 1)

Take(s, n) == SubSeq(s, 1, n)
Drop(s, n) == SubSeq(s, n + 1, Len(s))

\* ------------------------------------------------------------------ state
VARIABLES
    \* VoiceManager: the voice WebSocket
    wsReadyState,     \* this.ws.readyState
    isConnected,      \* this.isConnected
    reconnectTimers,  \* pending setTimeout(() => this._connect(), 3000)
    \* VoiceManager: playback side
    playbackContext,  \* "null" | "suspended" | "running" (this.playbackContext and its state)
    playerNode,       \* this.playerNode !== null
    awaitModule,      \* _playAudio calls suspended at await addModule(...)
    awaitResume,      \* _playAudio calls suspended at await resume(), oldest first
    playerPort,       \* messages posted to playerNode.port, not yet delivered
    \* PCMPlayerProcessor
    playerBuffer,     \* this.buffer
    channel,          \* outputs[0][0] as process() left it, when process() is the latest
                      \* player operation; empty otherwise
    \* history
    received,         \* the binary messages received so far, in order (frame k is
                      \* received[k])
    routed,           \* frame numbers posted to the player port, in posting order
    nClears,          \* clearPlayback() calls so far
    staleFrames,      \* frames received before the latest clearPlayback() call
    staleOut,         \* a sample of a stale frame was output after that call, by a
                      \* process() that ran with no clear command still in flight
    enqueued,         \* int16 samples of the frames delivered to the player since
                      \* the last clear, each with its frame number
    lastCleared,      \* samples the latest clear command discarded
    played,           \* non-padding samples output since the last clear
    preBuffer,        \* this.buffer before the latest player operation
    lastOp,           \* latest player operation: "none" | "enqueue" | "clear" | "pull"
    prevOp,           \* the player operation before it
    drain,            \* the frame last enqueued into an empty buffer, and the blocks
                      \* the pulls of one size have output since, while nothing else
                      \* was delivered to the player
    \* VoiceManager: capture side
    isListening,      \* this.isListening
    recorderNode,     \* this.recorderNode !== null (its capture context is running)
    recorderPort,     \* frames posted by a recorder worklet, not yet delivered to
                      \* recorderNode.port.onmessage
    wire,             \* messages handed to ws.send() so far, in order
    \* PCMRecorderProcessor
    sourceSampleRate, \* this.sourceSampleRate
    recorderBuffer,   \* this.buffer of the running recorder (empty when there is none)
    sampleIndex,      \* this.sampleIndex, times targetSampleRate (an integer)
    \* history
    nStarts,          \* startListening() calls so far
    nCallbacks,       \* capture callbacks with input so far
    inputPos,         \* input samples the running recorder has been given
    resampled,        \* samples the running recorder has pushed, in order
    sampled,          \* the input samples those were converted from, in order
    emitted,          \* frames the running recorder has posted, in order
    lastRemainder,    \* samples left in this.buffer by the latest stopListening()
    \* VoiceManager: reconnection
    reconnectDelay,   \* delay in ms of the pending reconnect timer (0: none pending)
    nSockets,         \* WebSocket objects made so far; this.ws is the latest
    \* App: tabs
    tabs,             \* this.tabs: [{ id, topic, pageData, loading }]
    activeTabId,      \* this.activeTabId, 0 for null
    pageCache,        \* this.pageCache: the results stored, each under its cache key
    fetches,          \* _openTopic calls suspended at await fetch('/api/generate')
    now,              \* Date.now()
    nTabCalls,        \* handlers of the tab bar run so far
    lastTabCall,      \* the latest of them, with what it was given
    destroyed,        \* destroy() has been called
    sessionId,        \* this.sessionId
    socketUrls,       \* the url of every WebSocket made so far, in order
    superseded,       \* readyStates in which a WebSocket was replaced by _connect()
    closesSinceOpen,  \* onclose events since the latest onopen (consecutive failures)
    \* observer
    status,           \* latest text given to onStatusChange ("" before the first)
    nStatus,          \* onStatusChange calls so far
    \* VoiceManager: capture device
    captureStream,    \* this.captureStream (0: null), streams numbered by acquisition
    captureContext,   \* this.captureContext (0: null)
    liveStreams,      \* acquired streams whose tracks have not been stopped
    openContexts,     \* capture contexts made and not closed
    loadedContexts,   \* capture contexts whose recorder module has loaded
    startCalls,       \* startListening() calls suspended at an await
    recorders,        \* recorder nodes made so far, with their context and stream
    \* history
    nDevices,         \* getUserMedia() grants so far
    nStartCalls,      \* startListening() calls begun so far
    nStops,           \* stopListening() calls so far
    stoppedIn,        \* readyStates in which stopListening() has run
    nOut,             \* send attempts so far (audio frames and texts), numbered 1..nOut
    dropped,          \* numbers of the attempts made while the socket was not open
    wireLog,          \* for each message of wire: its attempt number, its socket and
                      \* the socket's readyState at send()
    nTexts,           \* sendText() calls so far
    nPosts,           \* chunks posted by recorders outside RecorderProcess
    \* inbound control messages
    inbound,          \* text messages received by ws.onmessage so far, in order
    callLog           \* observer callbacks invoked by _handleEvent, in order, each with
                      \* the number of the message that caused it

\* binary messages received so far (frame numbers 1..nRecv)
nRecv == Len(received)

wsVars == <<wsReadyState, isConnected, reconnectTimers>>
linkVars == <<reconnectDelay, nSockets, superseded, closesSinceOpen>>
observerVars == <<status, nStatus>>
deviceVars == <<captureStream, captureContext, liveStreams, openContexts, loadedContexts,
                startCalls, recorders>>
sendHist == <<nOut, dropped, wireLog, nTexts, nPosts>>
deviceHist == <<nDevices, nStartCalls, nStops, stoppedIn>>
sessionSide == <<linkVars, observerVars, deviceVars, sendHist, deviceHist>>
managerVars == <<playbackContext, playerNode, awaitModule, awaitResume, playerPort>>
playerVars == <<playerBuffer, channel>>
playerHist == <<received, routed, nClears, staleFrames, staleOut, enqueued, lastCleared,
                played, preBuffer, lastOp, prevOp>>
captureVars == <<isListening, recorderNode, recorderPort, wire>>
recorderVars == <<sourceSampleRate, recorderBuffer, sampleIndex>>
recorderHist == <<nStarts, nCallbacks, inputPos, resampled, sampled, emitted,
                  lastRemainder>>
playbackSide == <<managerVars, playerVars, playerHist>>
captureSide == <<captureVars, recorderVars, recorderHist>>
eventVars == <<inbound, callLog>>
\* what the socket, playback and capture handlers above never touch
drainVars == <<drain>>
urlVars == <<sessionId, socketUrls>>
tabVars == <<tabs, activeTabId, pageCache, fetches, now, nTabCalls, lastTabCall>>
teardownVars == <<destroyed>>
otherVars == <<eventVars, drainVars, urlVars, tabVars, teardownVars>>
vars == <<wsVars, playbackSide, captureSide, sessionSide, otherVars>>

\* ------------------------------------------------------- PCMPlayerProcessor
\* float32[i] = int16Samples[i] / 32768
Int16ToFloat32(s) == Frac(s, 32768)

\* a conversion loop that stops one sample short
FrameToFloat32_Torn(frame) ==
    [i \in 1..(Len(frame.samples) - 1) |->
        [v |-> Frac(frame.samples[i], 32768), src |-> frame.id]]

\* the Float32Array of one frame, each sample tagged with its frame
FrameToFloat32(frame) ==
    [i \in 1..Len(frame.samples) |->
        [v |-> Int16ToFloat32(frame.samples[i]), src |-> frame.id]]

\* the two set() offsets swapped: the new frame goes in front
AppendFrame_Front(buf, float32) == float32 \o buf

\* newBuffer.set(this.buffer); newBuffer.set(float32, this.buffer.length)
AppendFrame(buf, float32) == buf \o float32

\* new Float32Array(0)
EmptyBuffer == <<>>

\* a clear command that leaves this.buffer as it is
ClearBuffer_Keep(buf) == buf

\* the clear command: this.buffer = new Float32Array(0)
ClearBuffer(buf) == EmptyBuffer

Silence == [v |-> Zero, src |-> 0]

\* the partial branch without its zero-fill loop: the rest of the block repeats
\* the last buffered sample
PullOutput_NoFill(buf, n) ==
    IF Len(buf) >= n THEN Take(buf, n)
    ELSE IF Len(buf) > 0 THEN buf \o [i \in 1..(n - Len(buf)) |-> buf[Len(buf)]]
    ELSE [i \in 1..n |-> Silence]

\* channel after process(): the three branches of lines 43-58
PullOutput(buf, n) ==
    IF Len(buf) >= n THEN Take(buf, n)
    ELSE IF Len(buf) > 0 THEN buf \o [i \in 1..(n - Len(buf)) |-> Silence]
    ELSE [i \in 1..n |-> Silence]

\* subarray(channel.length - 1): one consumed sample stays buffered
PullRest_OffByOne(buf, n) ==
    IF Len(buf) >= n THEN Drop(buf, n - 1)
    ELSE IF Len(buf) > 0 THEN EmptyBuffer
    ELSE buf

\* a full pull that drops the whole buffer
PullRest_Flush(buf, n) == EmptyBuffer

\* this.buffer after process()
PullRest(buf, n) ==
    IF Len(buf) >= n THEN Drop(buf, n)
    ELSE IF Len(buf) > 0 THEN EmptyBuffer
    ELSE buf

\* the int16 samples of a frame, each with its frame number
Tagged(frame) == [i \in 1..Len(frame.samples) |-> [s |-> frame.samples[i], src |-> frame.id]]

Min(a, b) == IF a < b THEN a ELSE b

\* no frame under observation
NoDrain == [frame |-> <<>>, n |-> 0, outs |-> <<>>]

\* a frame enqueued into the buffer buf: observed when buf was empty
DrainStart(buf, frame) ==
    IF buf = EmptyBuffer THEN [frame |-> Tagged(frame), n |-> 0, outs |-> <<>>]
    ELSE NoDrain

\* a pull of n samples that output out: observed while the pulls have one size that
\* divides the frame's length, up to the pull after the frame's last block
DrainPull(d, n, out) ==
    IF /\ d.frame # <<>>
       /\ d.n \in {0, n}
       /\ Len(d.frame) % n = 0
       /\ Len(d.outs) <= Len(d.frame) \div n
    THEN [frame |-> d.frame, n |-> n, outs |-> Append(d.outs, out)]
    ELSE NoDrain

StepOp(op) == /\ lastOp' = op
              /\ prevOp' = lastOp
              /\ preBuffer' = playerBuffer

\* port.onmessage of the player worklet: the oldest posted message is delivered
PlayerOnMessage ==
    /\ playerPort # <<>>
    /\ LET data == Head(playerPort) IN
       /\ playerPort' = Tail(playerPort)
       /\ IF data.command = "clear"
          THEN /\ playerBuffer' = ClearBuffer(playerBuffer)
               /\ enqueued' = <<>>
               /\ lastCleared' = Len(playerBuffer)
               /\ played' = <<>>
               /\ channel' = <<>>
               /\ drain' = NoDrain
               /\ StepOp("clear")
          ELSE IF Len(data.samples) = 0
          THEN UNCHANGED <<playerBuffer, enqueued, lastCleared, played, channel,
                           preBuffer, lastOp, prevOp, drain>>
          ELSE LET float32 == FrameToFloat32(data) IN
               /\ playerBuffer' = AppendFrame(playerBuffer, float32)
               /\ enqueued' = enqueued \o Tagged(data)
               /\ lastCleared' = lastCleared
               /\ played' = played
               /\ channel' = <<>>
               /\ drain' = DrainStart(playerBuffer, data)
               /\ StepOp("enqueue")
    /\ UNCHANGED <<eventVars, urlVars, tabVars, teardownVars, captureSide, sessionSide, wsVars, playbackContext, playerNode, awaitModule, awaitResume,
                   received, routed, nClears, staleFrames, staleOut>>

\* process(inputs, outputs) of the player worklet with outputs[0][0].length = n
PlayerProcess(n) ==
    /\ playerNode
    /\ channel' = PullOutput(playerBuffer, n)
    /\ playerBuffer' = PullRest(playerBuffer, n)
    /\ played' = played \o SubSeq(channel', 1, Min(n, Len(playerBuffer)))
    /\ staleOut' = \/ staleOut
                   \/ /\ \A i \in 1..Len(playerPort) : playerPort[i].command # "clear"
                      /\ \E i \in 1..n : channel'[i].src \in staleFrames
    /\ drain' = DrainPull(drain, n, channel')
    /\ StepOp("pull")
    /\ UNCHANGED <<eventVars, urlVars, tabVars, teardownVars, captureSide, sessionSide, wsVars, managerVars, received, routed, nClears, staleFrames, enqueued,
                   lastCleared>>

\* ------------------------------------------------- VoiceManager: WebSocket
\* onStatusChange?.(text)
Notify(text) ==
    /\ status' = text
    /\ nStatus' = nStatus + 1

\* delay of the timer onclose sets: setTimeout(..., 3000)
ReconnectDelay == 3000

\* this.ws.onopen
WsOnOpen ==
    /\ wsReadyState = "CONNECTING"
    /\ wsReadyState' = "OPEN"
    /\ isConnected' = TRUE
    /\ Notify("Connected - click mic to speak")
    /\ closesSinceOpen' = 0
    /\ UNCHANGED <<otherVars, reconnectTimers, reconnectDelay, nSockets, superseded, playbackSide,
                   captureSide, deviceVars, sendHist, deviceHist>>

\* an onclose that reports the drop and sets no timer
WsOnClose_NoRetry ==
    /\ wsReadyState \in {"CONNECTING", "OPEN", "CLOSING"}
    /\ wsReadyState' = "CLOSED"
    /\ isConnected' = FALSE
    /\ Notify("Disconnected - reconnecting...")
    /\ closesSinceOpen' = closesSinceOpen + 1
    /\ UNCHANGED <<otherVars, reconnectTimers, reconnectDelay, nSockets, superseded, playbackSide,
                   captureSide, deviceVars, sendHist, deviceHist>>

\* an onclose that leaves the flag as it was
WsOnClose_StillConnected ==
    /\ wsReadyState \in {"CONNECTING", "OPEN", "CLOSING"}
    /\ wsReadyState' = "CLOSED"
    /\ Notify("Disconnected - reconnecting...")
    /\ reconnectTimers' = reconnectTimers + 1
    /\ reconnectDelay' = ReconnectDelay
    /\ closesSinceOpen' = closesSinceOpen + 1
    /\ UNCHANGED <<otherVars, isConnected, nSockets, superseded, playbackSide, captureSide,
                   deviceVars, sendHist, deviceHist>>

\* this.ws.onclose: a failed attempt or a dropped connection
WsOnClose ==
    /\ wsReadyState \in {"CONNECTING", "OPEN", "CLOSING"}
    /\ wsReadyState' = "CLOSED"
    /\ isConnected' = FALSE
    /\ Notify("Disconnected - reconnecting...")
    /\ reconnectTimers' = reconnectTimers + 1
    /\ reconnectDelay' = ReconnectDelay
    /\ closesSinceOpen' = closesSinceOpen + 1
    /\ UNCHANGED <<otherVars, nSockets, superseded, playbackSide, captureSide, deviceVars, sendHist,
                   deviceHist>>

\* the session identifier the page constructs the manager with
SessionIds == {"session-a"}

\* a url that names a session of its own
SocketUrl_Fresh(id) == <<"location.host", "ws", "voice", "session-new">>

\* `${protocol}//${location.host}/ws/voice/${this.sessionId}`
SocketUrl(id) == <<"location.host", "ws", "voice", id>>

\* a timer that stays armed after it has fired
ReconnectTimer_Interval ==
    /\ reconnectTimers > 0
    /\ nSockets < MaxSockets
    /\ wsReadyState' = "CONNECTING"
    /\ nSockets' = nSockets + 1
    /\ superseded' = superseded \cup {wsReadyState}
    /\ socketUrls' = Append(socketUrls, SocketUrl(sessionId))
    /\ UNCHANGED <<eventVars, drainVars, tabVars, teardownVars, sessionId, reconnectTimers, reconnectDelay, isConnected,
                   closesSinceOpen,
                   observerVars, playbackSide, captureSide, deviceVars, sendHist, deviceHist>>

\* the timer set by onclose fires: _connect() makes a new WebSocket
ReconnectTimer ==
    /\ reconnectTimers > 0
    /\ nSockets < MaxSockets
    /\ reconnectTimers' = reconnectTimers - 1
    /\ reconnectDelay' = IF reconnectTimers = 1 THEN 0 ELSE reconnectDelay
    /\ wsReadyState' = "CONNECTING"
    /\ nSockets' = nSockets + 1
    /\ superseded' = superseded \cup {wsReadyState}
    /\ socketUrls' = Append(socketUrls, SocketUrl(sessionId))
    /\ UNCHANGED <<eventVars, drainVars, tabVars, teardownVars, sessionId, isConnected, closesSinceOpen, observerVars,
                   playbackSide, captureSide,
                   deviceVars, sendHist, deviceHist>>

\* ------------------------------------------------- VoiceManager: playback
SamplesMessage(id, samples) == [command |-> "none", samples |-> samples, id |-> id]
ClearMessage == [command |-> "clear", samples |-> <<>>, id |-> 0]

\* lines 211-212 for each call of `calls` in order: with a player node the frame
\* is posted; without one postMessage throws on null and the catch drops the frame
PostAll(port, calls, node) == IF node THEN port \o calls ELSE port

RoutedAll(hist, calls, node) ==
    IF node THEN hist \o [i \in 1..Len(calls) |-> calls[i].id] ELSE hist

\* _playAudio from the state check of line 206 on, for one call
PlayFromResume(call, node) ==
    IF playbackContext' = "suspended"
    THEN /\ awaitResume' = Append(awaitResume, call)
         /\ UNCHANGED <<playerPort, routed>>
    ELSE /\ playerPort' = PostAll(playerPort, <<call>>, node)
         /\ routed' = RoutedAll(routed, <<call>>, node)
         /\ UNCHANGED awaitResume

\* ws.onmessage with an ArrayBuffer: _playAudio(event.data) up to its first await
WsOnMessageBinary(samples) ==
    /\ wsReadyState = "OPEN"
    /\ nRecv < MaxFrames
    /\ received' = Append(received, samples)
    /\ LET call == SamplesMessage(nRecv + 1, samples) IN
       IF playbackContext = "null"
       THEN /\ playbackContext' = "suspended"
            /\ awaitModule' = Append(awaitModule, call)
            /\ UNCHANGED <<awaitResume, playerPort, routed>>
       ELSE /\ UNCHANGED <<playbackContext, awaitModule>>
            /\ PlayFromResume(call, playerNode)
    /\ UNCHANGED <<otherVars, captureSide, sessionSide, wsVars, playerNode, playerVars, nClears, staleFrames, staleOut,
                   enqueued, lastCleared, played, preBuffer, lastOp, prevOp>>

\* addModule() resolves: the first _playAudio call goes on from line 201
AddModuleResolved ==
    /\ awaitModule # <<>>
    /\ awaitModule' = Tail(awaitModule)
    /\ playerNode' = TRUE
    /\ UNCHANGED playbackContext
    /\ PlayFromResume(Head(awaitModule), TRUE)
    /\ UNCHANGED <<otherVars, captureSide, sessionSide, wsVars, playerVars, received, nClears, staleFrames, staleOut,
                   enqueued, lastCleared, played, preBuffer, lastOp, prevOp>>

\* the audio context starts running (allowed to start, or resume() succeeds):
\* the pending resume() promises resolve in the order they were made
ContextRunning ==
    /\ playbackContext = "suspended"
    /\ playbackContext' = "running"
    /\ awaitResume' = <<>>
    /\ playerPort' = PostAll(playerPort, awaitResume, playerNode)
    /\ routed' = RoutedAll(routed, awaitResume, playerNode)
    /\ UNCHANGED <<otherVars, captureSide, sessionSide, wsVars, playerNode, awaitModule, playerVars, received, nClears,
                   staleFrames, staleOut, enqueued, lastCleared, played, preBuffer, lastOp, prevOp>>

\* clearPlayback()
ClearPlayback ==
    /\ nClears < MaxClears
    /\ nClears' = nClears + 1
    /\ staleFrames' = 1..nRecv
    /\ playerPort' = IF playerNode THEN Append(playerPort, ClearMessage) ELSE playerPort
    /\ UNCHANGED <<otherVars, captureSide, sessionSide, wsVars, playbackContext, playerNode, awaitModule, awaitResume,
                   playerVars, received, routed, staleOut, enqueued, lastCleared, played,
                   preBuffer, lastOp, prevOp>>

\* ----------------------------------------------------- PCMRecorderProcessor
targetSampleRate == 16000
chunkSize == 1600

\* channelData.length: the render quantum of new AudioContext()
RenderQuantum == 128

\* Math.max(-1, Math.min(1, x)), x in quarters
Clamp(x) == IF x > 4 THEN 4
            ELSE IF x < -4 THEN -4
            ELSE x

\* a conversion that scales both signs by 32768
FloatToPcm_Symmetric(x) == Clamp(x) * 32768

\* s < 0 ? s * 32768 : s * 32767 of the clamped sample: the number pushed, in quarters
FloatToPcm(x) ==
    LET c == Clamp(x) IN
    IF c < 0 THEN c * 32768 ELSE c * 32767

\* the element new Int16Array(samples) holds for the number x (in quarters):
\* truncated toward zero, then wrapped to 16 bits
ToInt16(x) ==
    LET t == IF x < 0 THEN -((-x) \div 4) ELSE x \div 4
    IN ((t + 32768) % 65536) - 32768

\* this.buffer.push(int16) for each sample of pushed, in order
PushAll(buf, pushed) == buf \o pushed

\* this.sampleIndex >= this.ratio, both held in units of 1/16000 of a sample so that
\* the ratio is sourceSampleRate. The code compares doubles: a ratio with a finite
\* binary expansion (125 divides the rate: 16000, 32000, 48000) is stored exactly and
\* compares as the exact numbers do. 44100 / 16000 is stored rounded up, and the
\* accumulated index that would equal it exactly (every 441 samples) compares below
\* it, so that the sample is pushed one input later
RatioReached(next) ==
    IF sourceSampleRate % 125 = 0 THEN next >= sourceSampleRate
    ELSE next > sourceSampleRate

\* a loop that restarts the index at every pushed sample
ResampleStep_Restart(st, x) ==
    LET next == st.sampleIndex + targetSampleRate IN
    IF RatioReached(next)
    THEN [sampleIndex |-> 0,
          pushed |-> Append(st.pushed, FloatToPcm(x)),
          taken |-> Append(st.taken, x)]
    ELSE [sampleIndex |-> next, pushed |-> st.pushed, taken |-> st.taken]

\* one iteration of the downsampling loop of lines 93-102 on the input sample x;
\* pushed collects the samples the loop pushes, in the order it pushes them, and
\* taken the input samples they were converted from
ResampleStep(st, x) ==
    LET next == st.sampleIndex + targetSampleRate IN
    IF RatioReached(next)
    THEN [sampleIndex |-> next - sourceSampleRate,
          pushed |-> Append(st.pushed, FloatToPcm(x)),
          taken |-> Append(st.taken, x)]
    ELSE [sampleIndex |-> next, pushed |-> st.pushed, taken |-> st.taken]

\* the loop over channelData[lo..hi] in index order, started in st (the range is
\* halved, and the left half's result is evaluated before the right half starts, so
\* that the evaluation does not nest one level per sample)
RECURSIVE ResampleLoop(_, _, _, _)
ResampleLoop(channelData, lo, hi, st) ==
    IF lo > hi THEN st
    ELSE IF lo = hi THEN ResampleStep(st, channelData[lo])
    ELSE LET mid == (lo + hi) \div 2
             left == ResampleLoop(channelData, lo, mid, st)
         IN IF left.sampleIndex >= 0
            THEN ResampleLoop(channelData, mid + 1, hi, left)
            ELSE left

\* a chunk sent only once two are waiting
ChunkReady_Double(buf) == Len(buf) >= 2 * chunkSize

\* > for >=: a buffer of exactly chunkSize samples is not sent
ChunkReady_Strict(buf) == Len(buf) > chunkSize

\* this.buffer.length >= this.chunkSize
ChunkReady(buf) == Len(buf) >= chunkSize

\* new Int16Array(this.buffer.splice(0, this.chunkSize)): the frame posted
SpliceChunk(buf) == [i \in 1..Min(chunkSize, Len(buf)) |-> ToInt16(buf[i])]

\* a splice that removes one sample more than it sends
SpliceRest_Lossy(buf) == Drop(buf, Min(chunkSize + 1, Len(buf)))

\* this.buffer after splice(0, this.chunkSize)
SpliceRest(buf) == Drop(buf, Min(chunkSize, Len(buf)))

\* pcmData.buffer.byteLength of a frame
ByteLength(frame) == 2 * Len(frame)

\* the block of input samples the microphone delivers at input position pos
MicBlock(pos) == [i \in 1..RenderQuantum |-> MicSample(pos + i - 1)]

\* a block of len samples at input position pos: process() reads channelData.length
\* and works for any block length
MicBlockOf(pos, len) == [i \in 1..len |-> MicSample(pos + i - 1)]

\* the body of process(inputs) on the channel channelData: lines 90-109
ProcessChannel(channelData) ==
    LET r == ResampleLoop(channelData, 1, Len(channelData),
                          [sampleIndex |-> sampleIndex, pushed |-> <<>>, taken |-> <<>>])
        buf == PushAll(recorderBuffer, r.pushed)
    IN /\ sampleIndex' = r.sampleIndex
       /\ nCallbacks' = nCallbacks + 1
       /\ inputPos' = inputPos + Len(channelData)
       /\ resampled' = resampled \o r.pushed
       /\ sampled' = sampled \o r.taken
       /\ IF ChunkReady(buf)
          THEN /\ recorderBuffer' = SpliceRest(buf)
               /\ recorderPort' = Append(recorderPort, SpliceChunk(buf))
               /\ emitted' = Append(emitted, SpliceChunk(buf))
          ELSE /\ recorderBuffer' = buf
               /\ UNCHANGED <<recorderPort, emitted>>

\* process(inputs) of the recorder worklet; without an input channel it returns at once
RecorderProcess(hasInput) ==
    /\ recorderNode
    /\ nCallbacks < MaxCallbacks
    /\ IF ~hasInput
       THEN UNCHANGED <<recorderBuffer, sampleIndex, recorderPort, nCallbacks, inputPos,
                        resampled, sampled, emitted>>
       ELSE ProcessChannel(MicBlock(inputPos))
    /\ UNCHANGED <<otherVars, wsVars, playbackSide, sessionSide, isListening, recorderNode, wire,
                   sourceSampleRate, nStarts, lastRemainder>>

\* process(inputs) with an input channel of len samples: the same input stream
\* delivered in blocks of other lengths
RecorderProcessBlock(len) ==
    /\ recorderNode
    /\ nCallbacks < MaxCallbacks
    /\ inputPos + len <= MaxInput
    /\ ProcessChannel(MicBlockOf(inputPos, len))
    /\ UNCHANGED <<otherVars, wsVars, playbackSide, sessionSide, isListening, recorderNode, wire,
                   sourceSampleRate, nStarts, lastRemainder>>

\* ------------------------------------------------- VoiceManager: capture
BinaryMessage(frame) == [kind |-> "binary", samples |-> frame, byteLength |-> ByteLength(frame)]

\* JSON.stringify({ type: 'text', data: text })
TextMessage(text) == [kind |-> "text", type |-> "text", data |-> text]

\* a send that does not look at the socket's state
SendIfOpen_Always(sent, msg, readyState) == Append(sent, msg)

\* if (this.ws && this.ws.readyState === WebSocket.OPEN) this.ws.send(msg)
SendIfOpen(sent, msg, readyState) ==
    IF readyState = "OPEN" THEN Append(sent, msg) ELSE sent

\* one send attempt of msg: sent through SendIfOpen, numbered, and noted as dropped
\* when the socket is not open
Attempt(msg) ==
    /\ wire' = SendIfOpen(wire, msg, wsReadyState)
    /\ nOut' = nOut + 1
    /\ dropped' = IF wsReadyState = "OPEN" THEN dropped ELSE dropped \cup {nOut + 1}
    /\ wireLog' = IF Len(wire') > Len(wire)
                  THEN Append(wireLog, [seq |-> nOut + 1, socket |-> nSockets,
                                        readyState |-> wsReadyState])
                  ELSE wireLog

\* track.stop() on every track of the stream
StopTracks_Leak(live, stream) == live

StopTracks(live, stream) == live \ {stream}

\* context.close()
CloseContext(open, context) == open \ {context}

\* recorder nodes whose context is still open
LiveRecorders == {r \in recorders : r.ctx \in openContexts}

\* startListening(), reached through toggle() while not listening, with both of its
\* awaits resolving before any other event of the session: the microphone is granted,
\* a capture context of the device's rate (the same at every start) and a fresh
\* recorder are made
StartListening(rate) ==
    /\ ~isListening
    /\ startCalls = {}
    /\ nStarts < MaxStarts
    /\ nStarts' = nStarts + 1
    /\ sourceSampleRate # 0 => rate = sourceSampleRate
    /\ isListening' = TRUE
    /\ recorderNode' = TRUE
    /\ sourceSampleRate' = rate
    /\ recorderBuffer' = <<>>
    /\ sampleIndex' = 0
    /\ inputPos' = 0
    /\ resampled' = <<>>
    /\ sampled' = <<>>
    /\ emitted' = <<>>
    /\ nDevices' = nDevices + 1
    /\ captureStream' = nDevices + 1
    /\ captureContext' = nDevices + 1
    /\ liveStreams' = liveStreams \cup {nDevices + 1}
    /\ openContexts' = openContexts \cup {nDevices + 1}
    /\ loadedContexts' = loadedContexts \cup {nDevices + 1}
    /\ recorders' = recorders \cup {[node |-> nDevices + 1, ctx |-> nDevices + 1,
                                     stream |-> nDevices + 1]}
    /\ Notify("Listening...")
    /\ UNCHANGED <<otherVars, wsVars, linkVars, playbackSide, recorderPort, wire, nCallbacks,
                   lastRemainder, startCalls, sendHist, nStartCalls, nStops, stoppedIn>>

\* toggle() while not listening: startListening() runs up to await getUserMedia(...)
StartListeningCall ==
    /\ ~isListening
    /\ nStartCalls < MaxStartCalls
    /\ nStartCalls' = nStartCalls + 1
    /\ startCalls' = startCalls \cup {[id |-> nStartCalls + 1, pc |-> "getUserMedia", ctx |-> 0]}
    /\ UNCHANGED <<otherVars, wsVars, linkVars, observerVars, playbackSide, captureSide, captureStream,
                   captureContext, liveStreams, openContexts, loadedContexts, recorders,
                   sendHist, nDevices, nStops, stoppedIn>>

\* getUserMedia() resolves for a suspended call: the stream is stored, a capture
\* context is made and stored, and the call suspends at await addModule(...)
GetUserMediaResolved(call) ==
    /\ call \in startCalls
    /\ call.pc = "getUserMedia"
    /\ nDevices' = nDevices + 1
    /\ captureStream' = nDevices + 1
    /\ liveStreams' = liveStreams \cup {nDevices + 1}
    /\ captureContext' = nDevices + 1
    /\ openContexts' = openContexts \cup {nDevices + 1}
    /\ startCalls' = (startCalls \ {call})
                        \cup {[id |-> call.id, pc |-> "addModule", ctx |-> nDevices + 1]}
    /\ UNCHANGED <<otherVars, wsVars, linkVars, observerVars, playbackSide, captureSide, loadedContexts,
                   recorders, sendHist, nStartCalls, nStops, stoppedIn>>

\* a catch block that only logs: the failure reaches no observer
StartRejected_Silent(call) ==
    /\ call \in startCalls
    /\ startCalls' = startCalls \ {call}
    /\ UNCHANGED <<otherVars, wsVars, linkVars, observerVars, playbackSide, captureSide,
                   captureStream, captureContext, liveStreams, openContexts, loadedContexts,
                   recorders, sendHist, deviceHist>>

\* an await of a suspended call rejects (microphone refused, module not loaded): the
\* catch block reports it and the call ends
StartRejected(call) ==
    /\ call \in startCalls
    /\ startCalls' = startCalls \ {call}
    /\ Notify("Microphone access denied")
    /\ UNCHANGED <<otherVars, wsVars, linkVars, playbackSide, captureSide, captureStream,
                   captureContext, liveStreams, openContexts, loadedContexts, recorders,
                   sendHist, deviceHist>>

\* addModule() resolves for a suspended call: the rest of startListening() runs on
\* this.captureContext and this.captureStream as they are now. A null context, or one
\* whose module has not loaded, throws into the catch block
RecorderModuleResolved(call) ==
    /\ call \in startCalls
    /\ call.pc = "addModule"
    /\ startCalls' = startCalls \ {call}
    /\ loadedContexts' = loadedContexts \cup {call.ctx}
    /\ IF captureContext = 0 \/ captureContext \notin loadedContexts'
       THEN /\ Notify("Microphone access denied")
            /\ UNCHANGED <<recorders, recorderNode, isListening>>
       ELSE /\ recorders' = recorders \cup {[node |-> call.id, ctx |-> captureContext,
                                             stream |-> captureStream]}
            /\ recorderNode' = TRUE
            /\ isListening' = TRUE
            /\ Notify("Listening...")
    /\ UNCHANGED <<otherVars, wsVars, linkVars, playbackSide, recorderPort, wire, recorderVars,
                   recorderHist, captureStream, captureContext, liveStreams, openContexts,
                   sendHist, deviceHist>>

\* a stop that flushes the remainder as a short frame
StopFlush_Short(buf) == IF buf = <<>> THEN <<>> ELSE <<SpliceChunk(buf)>>

\* the frames stopListening() has the recorder post for what this.buffer still
\* holds: none, it only stops the tracks and closes the context
StopFlush(buf) == <<>>

\* a stop that always reports the channel as ready
StopStatus_Ready(connected) == "Click mic to speak"

\* this.isConnected ? 'Click mic to speak' : 'Disconnected'
StopStatus(connected) == IF connected THEN "Click mic to speak" ELSE "Disconnected"

\* stopListening(), reached through toggle() while listening: the capture context is
\* closed, which ends its recorder worklets with whatever this.buffer holds
StopListening ==
    /\ isListening
    /\ liveStreams' = IF captureStream # 0 THEN StopTracks(liveStreams, captureStream)
                      ELSE liveStreams
    /\ captureStream' = 0
    /\ openContexts' = IF captureContext # 0 THEN CloseContext(openContexts, captureContext)
                       ELSE openContexts
    /\ captureContext' = 0
    /\ recorderNode' = IF captureContext # 0 THEN FALSE ELSE recorderNode
    /\ isListening' = FALSE
    /\ Notify(StopStatus(isConnected))
    /\ nStops' = nStops + 1
    /\ stoppedIn' = stoppedIn \cup {wsReadyState}
    /\ lastRemainder' = Len(recorderBuffer)
    /\ recorderBuffer' = <<>>
    /\ sampleIndex' = 0
    /\ inputPos' = 0
    /\ resampled' = <<>>
    /\ sampled' = <<>>
    /\ emitted' = <<>>
    /\ recorderPort' = recorderPort \o StopFlush(recorderBuffer)
    /\ UNCHANGED <<otherVars, wsVars, linkVars, playbackSide, wire, sourceSampleRate, nStarts,
                   nCallbacks, loadedContexts, startCalls, recorders, sendHist, nDevices,
                   nStartCalls>>

\* this.ws.readyState after this.ws.close(): a socket that is connecting or open
\* starts closing, and its close event fires later
WsClose(readyState) ==
    IF readyState \in {"CONNECTING", "OPEN"} THEN "CLOSING" ELSE readyState

\* this.playbackContext.close(), when there is a playback context
ClosePlayback(context) == IF context = "null" THEN "null" ELSE "closed"

\* destroy(): stopListening(), then the playback context and the socket are closed.
\* No timer is cleared, no handler is removed and no suspended startListening() call
\* is told
Destroy ==
    /\ ~destroyed
    /\ destroyed' = TRUE
    /\ liveStreams' = IF captureStream # 0 THEN StopTracks(liveStreams, captureStream)
                      ELSE liveStreams
    /\ captureStream' = 0
    /\ openContexts' = IF captureContext # 0 THEN CloseContext(openContexts, captureContext)
                       ELSE openContexts
    /\ captureContext' = 0
    /\ recorderNode' = IF captureContext # 0 THEN FALSE ELSE recorderNode
    /\ isListening' = FALSE
    /\ Notify(StopStatus(isConnected))
    /\ nStops' = nStops + 1
    /\ stoppedIn' = stoppedIn \cup {wsReadyState}
    /\ lastRemainder' = Len(recorderBuffer)
    /\ recorderBuffer' = <<>>
    /\ sampleIndex' = 0
    /\ inputPos' = 0
    /\ resampled' = <<>>
    /\ sampled' = <<>>
    /\ emitted' = <<>>
    /\ recorderPort' = recorderPort \o StopFlush(recorderBuffer)
    /\ playbackContext' = ClosePlayback(playbackContext)
    /\ wsReadyState' = WsClose(wsReadyState)
    /\ UNCHANGED <<eventVars, drainVars, urlVars, tabVars, isConnected, reconnectTimers,
                   linkVars, playerNode, awaitModule, awaitResume, playerPort, playerVars,
                   playerHist, wire, sourceSampleRate, nStarts, nCallbacks, loadedContexts,
                   startCalls, recorders, sendHist, nDevices, nStartCalls>>

\* toggle() by the user of a page that has not been torn down
UserStart == ~destroyed /\ StartListeningCall

\* a chunk of chunkSize samples, all x
ChunkOf(x) == [i \in 1..chunkSize |-> x]

\* process() of a live recorder on a callback that fills this.buffer to chunkSize:
\* one chunk is posted (the samples themselves are RecorderProcess's subject)
RecorderPostMessage ==
    /\ LiveRecorders # {}
    /\ nPosts < MaxPosts
    /\ nPosts' = nPosts + 1
    /\ recorderPort' = Append(recorderPort, ChunkOf(0))
    /\ UNCHANGED <<otherVars, wsVars, linkVars, observerVars, playbackSide, isListening, recorderNode,
                   wire, recorderVars, recorderHist, deviceVars, nOut, dropped, wireLog,
                   nTexts, deviceHist>>

\* recorderNode.port.onmessage: the oldest posted frame is sent if the socket is open
RecorderOnMessage ==
    /\ recorderPort # <<>>
    /\ recorderPort' = Tail(recorderPort)
    /\ Attempt(BinaryMessage(Head(recorderPort)))
    /\ UNCHANGED <<otherVars, wsVars, linkVars, observerVars, playbackSide, isListening, recorderNode,
                   recorderVars, recorderHist, deviceVars, nTexts, nPosts, deviceHist>>

\* sendText(text)
SendText(text) ==
    /\ nTexts < MaxTexts
    /\ nTexts' = nTexts + 1
    /\ Attempt(TextMessage(text))
    /\ UNCHANGED <<otherVars, wsVars, linkVars, observerVars, playbackSide, isListening, recorderNode,
                   recorderPort, recorderVars, recorderHist, deviceVars, nPosts, deviceHist>>

\* ------------------------------------------- VoiceManager: control events
\* A text message is the sequence of its JSON tokens, each a tuple of strings:
\* <<"{">>, <<"}">>, a member <<key, value>>, or a literal such as <<"null">>.
\* Values are written as in the text ("true", "false", a string).
Member(key, value) == <<key, value>>
Object(members) == <<<<"{">>>> \o members \o <<<<"}">>>>

\* the texts the peer sends here: the seven event types of the protocol, an unknown
\* type, a JSON value that is no object, and texts that are not JSON
InboundTexts ==
    { Object(<<Member("type", "voice_ready")>>),
      Object(<<Member("type", "input_transcription"), Member("data", "hi"),
               Member("partial", "true")>>),
      Object(<<Member("type", "output_transcription"), Member("data", "hi")>>),
      Object(<<Member("type", "transcription"), Member("data", "hi"),
               Member("is_output", "true")>>),
      Object(<<Member("type", "transcription"), Member("data", "hi")>>),
      Object(<<Member("type", "tool_call"), Member("data", "hi")>>),
      Object(<<Member("type", "tool_result"), Member("data", "hi")>>),
      Object(<<Member("type", "error"), Member("data", "hi")>>),
      Object(<<Member("type", "other"), Member("data", "hi")>>),
      <<<<"null">>>>,
      <<>>,
      <<<<"{">>, Member("type", "tool_call")>>,
      <<<<"oops">>>> }

\* a parser that closes an object the text left open
JsonParse_Lenient(text) ==
    IF text = <<<<"null">>>> THEN [ok |-> TRUE, isObject |-> FALSE, members |-> <<>>]
    ELSE IF /\ Len(text) >= 1
            /\ text[1] = <<"{">>
            /\ \A i \in 2..Len(text) : Len(text[i]) = 2 \/ (i = Len(text) /\ text[i] = <<"}">>)
    THEN [ok |-> TRUE, isObject |-> TRUE,
          members |-> SelectSeq(SubSeq(text, 2, Len(text)), LAMBDA t : Len(t) = 2)]
    ELSE [ok |-> FALSE, isObject |-> FALSE, members |-> <<>>]

\* JSON.parse(text): the literal null, or an object "{" member* "}"; anything else
\* throws
JsonParse(text) ==
    IF text = <<<<"null">>>> THEN [ok |-> TRUE, isObject |-> FALSE, members |-> <<>>]
    ELSE IF /\ Len(text) >= 2
            /\ text[1] = <<"{">>
            /\ text[Len(text)] = <<"}">>
            /\ \A i \in 2..(Len(text) - 1) : Len(text[i]) = 2
    THEN [ok |-> TRUE, isObject |-> TRUE, members |-> SubSeq(text, 2, Len(text) - 1)]
    ELSE [ok |-> FALSE, isObject |-> FALSE, members |-> <<>>]

\* event[key] of a parsed object: the value of its last member of that key
Field(members, key) ==
    LET at == {i \in 1..Len(members) : members[i][1] = key} IN
    IF at = {} THEN "undefined"
    ELSE members[CHOOSE i \in at : \A j \in at : j <= i][2]

\* truthiness of a value as if (value) takes it
Truthy(value) == value \notin {"undefined", "false", "null", "0", ""}

Call(cb, args) == [cb |-> cb, args |-> args]

\* _handleEvent(event): the callbacks its switch invokes, in order
HandleEvent(members) ==
    LET type == Field(members, "type")
        data == Field(members, "data")
    IN  IF type = "input_transcription"
        THEN <<Call("onTranscription", <<data, Field(members, "partial")>>)>>
        ELSE IF type = "output_transcription"
        THEN <<Call("onOutputTranscription", <<data>>)>>
        ELSE IF type = "transcription"
        THEN IF Truthy(Field(members, "is_output"))
             THEN <<Call("onOutputTranscription", <<data>>)>>
             ELSE <<Call("onTranscription", <<data, "false">>)>>
        ELSE IF type \in {"tool_call", "tool_result"}
        THEN <<Call("onToolEvent", <<type, data>>)>>
        ELSE <<>>

\* the try block of ws.onmessage for a text: a parse failure, and the TypeError of
\* reading .type of null, end in the catch with no callback invoked
TextCalls(text) ==
    LET parsed == JsonParse(text) IN
    IF parsed.ok /\ parsed.isObject THEN HandleEvent(parsed.members) ELSE <<>>

\* ws.onmessage with a text message
WsOnMessageText(text) ==
    /\ wsReadyState = "OPEN"
    /\ Len(inbound) < MaxEvents
    /\ inbound' = Append(inbound, text)
    /\ callLog' = callLog \o [i \in 1..Len(TextCalls(text)) |->
                                [call |-> TextCalls(text)[i], msg |-> Len(inbound) + 1]]
    /\ UNCHANGED <<wsVars, playbackSide, captureSide, sessionSide, drainVars, urlVars, tabVars, teardownVars>>

\* ------------------------------------------------------------------ App: tabs
\* topics asked for, in the spellings the page may be given
Topics == {"Mars", "mars", "io"}
Focuses == {"general overview", "history"}

\* toLowerCase() on the strings above
LowerCase(str) == IF str = "Mars" THEN "mars" ELSE str

\* `${topic.toLowerCase()}|${focus.toLowerCase()}`
CacheKey(topic, focus) == <<LowerCase(topic), LowerCase(focus)>>

\* the encyclopedia page the server generates for a request
PageFor(topic, focus) == [topic |-> topic, focus |-> focus]
\* pageData: null
NoPage == [topic |-> "", focus |-> ""]

\* this.tabs.findIndex((t) => t.id === tabId), counted from 1; 0 when there is none
FindTab(ts, tabId) ==
    IF \E i \in 1..Len(ts) : ts[i].id = tabId
    THEN CHOOSE i \in 1..Len(ts) : ts[i].id = tabId /\ \A j \in 1..(i - 1) : ts[j].id # tabId
    ELSE 0

\* a search that compares the topics as written
HasTopic_CaseSensitive(ts, topic) == \E i \in 1..Len(ts) : ts[i].topic = topic

\* this.tabs.find((t) => t.topic.toLowerCase() === topic.toLowerCase()) finds a tab
HasTopic(ts, topic) == \E i \in 1..Len(ts) : LowerCase(ts[i].topic) = LowerCase(topic)

\* the id of the first tab of that topic
TopicTab(ts, topic) ==
    ts[CHOOSE i \in 1..Len(ts) :
          /\ LowerCase(ts[i].topic) = LowerCase(topic)
          /\ \A j \in 1..(i - 1) : LowerCase(ts[j].topic) # LowerCase(topic)].id

\* this.activeTabId after _switchToTab(tabId) on the tabs ts
SwitchToTab(ts, active, tabId) == IF FindTab(ts, tabId) = 0 THEN active ELSE tabId

\* this.activeTabId after _createLoadingTab(topic) has pushed the tab tabId:
\* if (this.tabs.length === 1) this._switchToTab(tabId)
ShowIfFirst(ts, active, tabId) ==
    IF Len(ts) = 1 THEN SwitchToTab(ts, active, tabId) ELSE active

IsCached(key) == \E e \in pageCache : e.key = key
CachedPage(key) == (CHOOSE e \in pageCache : e.key = key).page

\* the handler that ran, numbered
TabCall(op, topic, focus, tabId, flag) ==
    /\ nTabCalls' = nTabCalls + 1
    /\ lastTabCall' = [op |-> op, topic |-> topic, focus |-> focus, tabId |-> tabId,
                        flag |-> flag]

\* _createTab(topic, pageData): the topic's tab is switched to, or a finished tab is
\* pushed and switched to
CreateTab(topic, pageData) ==
    IF HasTopic(tabs, topic)
    THEN /\ activeTabId' = SwitchToTab(tabs, activeTabId, TopicTab(tabs, topic))
         /\ tabs' = tabs
    ELSE /\ tabs' = Append(tabs, [id |-> now, topic |-> topic, pageData |-> pageData,
                                   loading |-> FALSE])
         /\ activeTabId' = SwitchToTab(tabs', activeTabId, now)

\* _openTopic(topic, focus) up to its await: a cached page gets a finished tab, a topic
\* that has a tab gets that tab flashed, any other topic gets a loading tab and a
\* request. The call is noted with whether the page was cached
OpenTopic(topic, focus) ==
    /\ nTabCalls < MaxTabCalls
    /\ TabCall("openTopic", topic, focus, now, IsCached(CacheKey(topic, focus)))
    /\ IF IsCached(CacheKey(topic, focus))
       THEN /\ CreateTab(topic, CachedPage(CacheKey(topic, focus)))
            /\ UNCHANGED fetches
       ELSE IF HasTopic(tabs, topic)
       THEN UNCHANGED <<tabs, activeTabId, fetches>>
       ELSE /\ tabs' = Append(tabs, [id |-> now, topic |-> topic, pageData |-> NoPage,
                                      loading |-> TRUE])
            /\ activeTabId' = ShowIfFirst(tabs', activeTabId, now)
            /\ fetches' = fetches \cup {[tabId |-> now, topic |-> topic, focus |-> focus,
                                          call |-> nTabCalls + 1, first |-> tabs = <<>>]}
    /\ UNCHANGED <<pageCache, now>>
    /\ UNCHANGED <<wsVars, playbackSide, captureSide, sessionSide, eventVars, drainVars, urlVars,
                   teardownVars>>

\* the topic has a tab that is still loading
IsLoading(ts, topic) ==
    \E i \in 1..Len(ts) : ts[i].loading /\ LowerCase(ts[i].topic) = LowerCase(topic)

\* _onPageReceived(pageData): a page pushed over the content channel goes to
\* _createTab under the topic the page carries; the cache is not written. The call is
\* noted with whether the topic had a loading tab
OnPageReceived(topic, focus) ==
    /\ nTabCalls < MaxTabCalls
    /\ TabCall("pageReceived", topic, focus, now, IsLoading(tabs, topic))
    /\ CreateTab(topic, PageFor(topic, focus))
    /\ UNCHANGED <<pageCache, fetches, now>>
    /\ UNCHANGED <<wsVars, playbackSide, captureSide, sessionSide, eventVars, drainVars, urlVars,
                   teardownVars>>

\* the first tab of that id with the fields _updateTabWithContent / _updateTabWithError
\* assign; no tab of that id: nothing
UpdateTab(ts, tabId, pageData) ==
    IF FindTab(ts, tabId) = 0 THEN ts
    ELSE [ts EXCEPT ![FindTab(ts, tabId)] =
             [id |-> @.id, topic |-> @.topic, loading |-> FALSE,
              pageData |-> IF pageData = NoPage THEN @.pageData ELSE pageData]]

\* the request of a suspended _openTopic call completes: a page is cached and put in
\* the tab, an error status or a rejected fetch marks the tab, anything else is
\* ignored. The call is noted with whether its tab was the first one
FetchCompleted(fetch, outcome) ==
    /\ fetch \in fetches
    /\ nTabCalls < MaxTabCalls
    /\ fetches' = fetches \ {fetch}
    /\ TabCall(outcome, fetch.topic, fetch.focus, fetch.tabId, fetch.first)
    /\ IF outcome = "encyclopedia_page"
       THEN /\ pageCache' = {e \in pageCache : e.key # CacheKey(fetch.topic, fetch.focus)}
                               \cup {[key |-> CacheKey(fetch.topic, fetch.focus),
                                       page |-> PageFor(fetch.topic, fetch.focus)]}
            /\ tabs' = UpdateTab(tabs, fetch.tabId, PageFor(fetch.topic, fetch.focus))
       ELSE IF outcome \in {"error", "rejected"}
       THEN /\ tabs' = UpdateTab(tabs, fetch.tabId, NoPage)
            /\ UNCHANGED pageCache
       ELSE UNCHANGED <<tabs, pageCache>>
    /\ UNCHANGED <<activeTabId, now>>
    /\ UNCHANGED <<wsVars, playbackSide, captureSide, sessionSide, eventVars, drainVars, urlVars,
                   teardownVars>>

\* a click on the label of the tab tabId
TabLabelClick(tabId) ==
    /\ nTabCalls < MaxTabCalls
    /\ FindTab(tabs, tabId) # 0
    /\ TabCall("switchToTab", "", "", tabId, FALSE)
    /\ activeTabId' = SwitchToTab(tabs, activeTabId, tabId)
    /\ UNCHANGED <<tabs, pageCache, fetches, now>>
    /\ UNCHANGED <<wsVars, playbackSide, captureSide, sessionSide, eventVars, drainVars, urlVars,
                   teardownVars>>

\* a close that removes the tab and leaves activeTabId as it was
CloseTab_KeepActive(tabId) ==
    /\ nTabCalls < MaxTabCalls
    /\ FindTab(tabs, tabId) # 0
    /\ TabCall("closeTab", "", "", tabId, FALSE)
    /\ LET index == FindTab(tabs, tabId)
       IN tabs' = SubSeq(tabs, 1, index - 1) \o SubSeq(tabs, index + 1, Len(tabs))
    /\ UNCHANGED <<activeTabId, pageCache, fetches, now>>
    /\ UNCHANGED <<wsVars, playbackSide, captureSide, sessionSide, eventVars, drainVars, urlVars,
                   teardownVars>>

\* _closeTab(tabId), from the tab's close button
CloseTab(tabId) ==
    /\ nTabCalls < MaxTabCalls
    /\ FindTab(tabs, tabId) # 0
    /\ TabCall("closeTab", "", "", tabId, FALSE)
    /\ LET index == FindTab(tabs, tabId)
           rest == SubSeq(tabs, 1, index - 1) \o SubSeq(tabs, index + 1, Len(tabs))
       IN /\ tabs' = rest
          /\ activeTabId' =
                IF activeTabId # tabId THEN activeTabId
                ELSE IF Len(rest) > 0
                THEN SwitchToTab(rest, activeTabId, rest[Min(index, Len(rest))].id)
                ELSE 0
    /\ UNCHANGED <<pageCache, fetches, now>>
    /\ UNCHANGED <<wsVars, playbackSide, captureSide, sessionSide, eventVars, drainVars, urlVars,
                   teardownVars>>

\* the clock moves to the next millisecond
ClockTick ==
    /\ now < MaxNow
    /\ now' = now + 1
    /\ UNCHANGED <<tabs, activeTabId, pageCache, fetches, nTabCalls, lastTabCall>>
    /\ UNCHANGED <<wsVars, playbackSide, captureSide, sessionSide, eventVars, drainVars, urlVars,
                   teardownVars>>

\* ------------------------------------------------------------ specification
Init ==
    /\ wsReadyState = "CONNECTING"
    /\ isConnected = FALSE
    /\ reconnectTimers = 0
    /\ playbackContext = "null"
    /\ playerNode = FALSE
    /\ awaitModule = <<>>
    /\ awaitResume = <<>>
    /\ playerPort = <<>>
    /\ drain = NoDrain
    /\ destroyed = FALSE
    /\ sessionId \in SessionIds
    /\ tabs = <<>>
    /\ activeTabId = 0
    /\ pageCache = {}
    /\ fetches = {}
    /\ now = 1
    /\ nTabCalls = 0
    /\ lastTabCall = [op |-> "none", topic |-> "", focus |-> "", tabId |-> 0, flag |-> FALSE]
    /\ socketUrls = <<SocketUrl(sessionId)>>
    /\ playerBuffer = EmptyBuffer
    /\ channel = <<>>
    /\ received = <<>>
    /\ routed = <<>>
    /\ nClears = 0
    /\ staleFrames = {}
    /\ staleOut = FALSE
    /\ enqueued = <<>>
    /\ lastCleared = 0
    /\ played = <<>>
    /\ preBuffer = <<>>
    /\ lastOp = "none"
    /\ prevOp = "none"
    /\ isListening = FALSE
    /\ recorderNode = FALSE
    /\ recorderPort = <<>>
    /\ wire = <<>>
    /\ sourceSampleRate = 0
    /\ recorderBuffer = <<>>
    /\ sampleIndex = 0
    /\ nStarts = 0
    /\ nCallbacks = 0
    /\ inputPos = 0
    /\ resampled = <<>>
    /\ sampled = <<>>
    /\ emitted = <<>>
    /\ lastRemainder = 0
    /\ reconnectDelay = 0
    /\ nSockets = 1
    /\ superseded = {}
    /\ closesSinceOpen = 0
    /\ status = ""
    /\ nStatus = 0
    /\ captureStream = 0
    /\ captureContext = 0
    /\ liveStreams = {}
    /\ openContexts = {}
    /\ loadedContexts = {}
    /\ startCalls = {}
    /\ recorders = {}
    /\ nDevices = 0
    /\ nStartCalls = 0
    /\ nStops = 0
    /\ stoppedIn = {}
    /\ nOut = 0
    /\ dropped = {}
    /\ wireLog = <<>>
    /\ nTexts = 0
    /\ nPosts = 0
    /\ inbound = <<>>
    /\ callLog = <<>>

NextPlayer ==
    \/ WsOnOpen
    \/ \E len \in 0..MaxFrameLen : WsOnMessageBinary(InboundSamples(nRecv + 1, len))
    \/ AddModuleResolved
    \/ ContextRunning
    \/ ClearPlayback
    \/ PlayerOnMessage
    \/ \E n \in 1..MaxPull : PlayerProcess(n)

SpecPlayer == Init /\ [][NextPlayer]_vars

NextRecorder ==
    \/ WsOnOpen
    \/ \E rate \in Rates : StartListening(rate)
    \/ StopListening
    \/ \E hasInput \in BOOLEAN : RecorderProcess(hasInput)
    \/ RecorderOnMessage

SpecRecorder == Init /\ [][NextRecorder]_vars

\* the connection and what is sent on it, with a recorder started in one piece
NextLink ==
    \/ WsOnOpen
    \/ WsOnClose
    \/ ReconnectTimer
    \/ StartListening(targetSampleRate)
    \/ RecorderPostMessage
    \/ RecorderOnMessage
    \/ SendText("hello")

SpecLink == Init /\ [][NextLink]_vars

\* the statuses reported over a connection that opens, drops and reconnects while
\* capture is started and stopped
NextStatus ==
    \/ WsOnOpen
    \/ WsOnClose
    \/ ReconnectTimer
    \/ StartListening(targetSampleRate)
    \/ StopListening

SpecStatus == Init /\ [][NextStatus]_vars

\* a connection attempt under way comes to its end: the peer accepts it or it fails
AttemptResolves == wsReadyState = "CONNECTING" /\ (WsOnOpen \/ WsOnClose)

\* the link with the scheduling the browser gives it: a timer that was set fires, and
\* a connection attempt does not stay pending for ever. What the user does (start,
\* text) and whether an open connection drops is left free
SpecLinkLive ==
    /\ Init
    /\ [][NextLink]_vars
    /\ WF_vars(ReconnectTimer)
    /\ WF_vars(AttemptResolves)

\* a session that is torn down at some point of its connection and capture life
NextTeardown ==
    \/ WsOnOpen
    \/ WsOnClose
    \/ ReconnectTimer
    \/ UserStart
    \/ \E call \in startCalls : GetUserMediaResolved(call)
    \/ \E call \in startCalls : StartRejected(call)
    \/ \E call \in startCalls : RecorderModuleResolved(call)
    \/ Destroy

SpecTeardown == Init /\ [][NextTeardown]_vars

\* the control events of an open connection
NextEvents ==
    \/ WsOnOpen
    \/ \E text \in InboundTexts : WsOnMessageText(text)

SpecEvents == Init /\ [][NextEvents]_vars

\* the tab bar: topics opened, requests completing, tabs clicked and closed
NextTabs ==
    \/ \E topic \in Topics, focus \in Focuses : OpenTopic(topic, focus)
    \/ \E fetch \in fetches, outcome \in {"encyclopedia_page", "error", "rejected", "other"} :
          FetchCompleted(fetch, outcome)
    \/ \E topic \in Topics, focus \in Focuses : OnPageReceived(topic, focus)
    \/ \E tabId \in 1..MaxNow : TabLabelClick(tabId)
    \/ \E tabId \in 1..MaxNow : CloseTab(tabId)
    \/ ClockTick

SpecTabs == Init /\ [][NextTabs]_vars

\* one recorder of any device rate run over its render quanta
NextPacketizer ==
    \/ \E rate \in DeviceRates : StartListening(rate)
    \/ \E hasInput \in BOOLEAN : RecorderProcess(hasInput)

SpecPacketizer == Init /\ [][NextPacketizer]_vars

\* the recorder fed one input stream in blocks of several lengths
NextResampler ==
    \/ \E rate \in DeviceRates : StartListening(rate)
    \/ \E len \in BlockLengths : RecorderProcessBlock(len)

SpecResampler == Init /\ [][NextResampler]_vars

\* the capture life cycle with its awaits, on a connection that opens and drops
NextCapture ==
    \/ WsOnOpen
    \/ WsOnClose
    \/ StartListeningCall
    \/ \E call \in startCalls : GetUserMediaResolved(call)
    \/ \E call \in startCalls : StartRejected(call)
    \/ \E call \in startCalls : RecorderModuleResolved(call)
    \/ StopListening
    \/ RecorderPostMessage
    \/ RecorderOnMessage

SpecCapture == Init /\ [][NextCapture]_vars

\* ------------------------------------------------------------------ claims
IsSilence(x) == x.v = <<0, 1>>

\* the float x is the int16 s divided by 32768
IsFloatOf(x, s) == x.v[2] > 0 /\ x.v[1] * 32768 = s * x.v[2]

\* C1: a process() call asking for n samples with at least n buffered outputs the n
\* oldest buffered samples in order and removes exactly those; the other buffered
\* samples stay, unchanged and in order.
C1_PullEnough ==
    (lastOp = "pull" /\ Len(preBuffer) >= Len(channel)) =>
        /\ \A i \in 1..Len(channel) : channel[i] = preBuffer[i]
        /\ Len(playerBuffer) = Len(preBuffer) - Len(channel)
        /\ \A j \in 1..Len(playerBuffer) : playerBuffer[j] = preBuffer[Len(channel) + j]

C1_Witness ==
    /\ lastOp = "pull"
    /\ Len(channel) = 2
    /\ Len(preBuffer) > Len(channel)
    /\ playerBuffer # <<>>

\* C2: a process() call asking for n samples with m < n buffered (m = 0 included)
\* outputs the m samples followed by n - m zeros and leaves the buffer empty; the
\* callback can always run once the player exists.
C2_Underrun ==
    /\ (lastOp = "pull" /\ Len(preBuffer) < Len(channel)) =>
        /\ \A i \in 1..Len(preBuffer) : channel[i] = preBuffer[i]
        /\ \A i \in (Len(preBuffer) + 1)..Len(channel) : IsSilence(channel[i])
        /\ playerBuffer = <<>>
    /\ playerNode => \A n \in 1..MaxPull : ENABLED PlayerProcess(n)

C2_Witness ==
    /\ lastOp = "pull"
    /\ Len(preBuffer) = 1
    /\ Len(channel) = 2
    /\ ~IsSilence(channel[1])

\* C3: between clear commands, the non-padding samples output so far are a prefix of
\* the samples of the delivered frames in delivery order, whatever the frame
\* boundaries: none out of order, none twice.
C3_Ordering ==
    /\ Len(played) <= Len(enqueued)
    /\ \A i \in 1..Len(played) :
        /\ played[i].src = enqueued[i].src
        /\ IsFloatOf(played[i], enqueued[i].s)

\* one output block holds samples of two frames
C3_Witness ==
    /\ lastOp = "pull"
    /\ \E i, j \in 1..Len(channel) : channel[i].src = 1 /\ channel[j].src = 2
    /\ played # <<>>

\* C4: a process() call right after a clear command outputs only zeros, whatever was
\* buffered before the clear; a clear right after a clear leaves the buffer as it was.
C4_ClearThenPull ==
    /\ (lastOp = "pull" /\ prevOp = "clear") =>
        \A i \in 1..Len(channel) : IsSilence(channel[i]) /\ channel[i].src = 0
    /\ (lastOp = "clear" /\ prevOp = "clear") => playerBuffer = preBuffer

C4_Witness ==
    /\ lastOp = "pull"
    /\ prevOp = "clear"
    /\ lastCleared > 0
    /\ Len(channel) > 0

\* C5: after a clearPlayback() call has taken effect (no clear command is still on
\* its way to the player), no sample of a frame received before the call is output.
C5_NoStaleAudio == ~staleOut

\* C6: every binary message received that holds samples is either still inside a
\* suspended _playAudio call or has been posted to the player, and frames are posted
\* in the order received.
C6_InboundRouted ==
    /\ \A id \in 1..nRecv :
        \/ received[id] = <<>>
        \/ \E i \in 1..Len(awaitModule) : awaitModule[i].id = id
        \/ \E i \in 1..Len(awaitResume) : awaitResume[i].id = id
        \/ \E i \in 1..Len(routed) : routed[i] = id
    /\ \A i, j \in 1..Len(routed) : i < j => routed[i] < routed[j]

\* C7: in every interleaving of frame messages, clear commands and output callbacks,
\* this.buffer is made of whole operations: it is exactly the delivered frames
\* since the last clear, converted, less the samples output since, and it holds no
\* sample of a frame that is still on its way to the player.
C7_WholeOperations ==
    /\ Len(played) + Len(playerBuffer) = Len(enqueued)
    /\ \A j \in 1..Len(playerBuffer) :
        /\ Len(played) + j <= Len(enqueued)
        /\ playerBuffer[j].src = enqueued[Len(played) + j].src
        /\ IsFloatOf(playerBuffer[j], enqueued[Len(played) + j].s)
    /\ \A i \in 1..Len(playerPort) : \A j \in 1..Len(playerBuffer) :
        playerPort[i].command = "clear" \/ playerPort[i].id # playerBuffer[j].src

\* a frame is delivered between two output callbacks while another message waits
C7_Witness ==
    /\ lastOp = "enqueue"
    /\ prevOp = "pull"
    /\ played # <<>>
    /\ playerBuffer # <<>>
    /\ playerPort # <<>>

\* samples in the first k frames of a sequence of frames
RECURSIVE SamplesIn(_, _)
SamplesIn(frames, k) == IF k = 0 THEN 0 ELSE SamplesIn(frames, k - 1) + Len(frames[k])

\* C8: after every capture callback, a recorder that has pushed 1600*k + r resampled
\* samples (0 <= r < 1600) has posted exactly k frames of 1600 samples and retains
\* exactly r (none when r = 0).
C8_PacketizerExact ==
    recorderNode =>
        /\ Len(emitted) = Len(resampled) \div 1600
        /\ Len(recorderBuffer) = Len(resampled) % 1600
        /\ \A f \in 1..Len(emitted) : Len(emitted[f]) = 1600

C8_Witness ==
    /\ recorderNode
    /\ Len(resampled) = 3200
    /\ Len(emitted) = 2
    /\ recorderBuffer = <<>>

\* C9: after every capture callback, the posted frames in posting order followed by
\* the retained samples are the resampled samples in the order they were pushed
\* (as 16-bit values in the frames): nothing reordered, duplicated or lost.
C9_PacketizerOrder ==
    recorderNode =>
        LET sent == SamplesIn(emitted, Len(emitted)) IN
        /\ Len(resampled) = sent + Len(recorderBuffer)
        /\ \A f \in 1..Len(emitted) :
            LET off == SamplesIn(emitted, f - 1) IN
            /\ off + Len(emitted[f]) <= Len(resampled)
            /\ \A i \in 1..Len(emitted[f]) : emitted[f][i] = ToInt16(resampled[off + i])
        /\ recorderBuffer = SubSeq(resampled, sent + 1, Len(resampled))

\* a frame was posted and samples are retained, at a rate that is no multiple of 16000
C9_Witness ==
    /\ recorderNode
    /\ sourceSampleRate = 44100
    /\ Len(emitted) = 1
    /\ recorderBuffer # <<>>

\* C10: every binary message handed to the socket holds exactly 1600 samples, 3200
\* bytes; what the packetizer retains when capture stops is not sent, short or padded.
C10_OutboundFrames ==
    \A i \in 1..Len(wire) :
        wire[i].kind = "binary" =>
            /\ Len(wire[i].samples) = 1600
            /\ wire[i].byteLength = 3200

\* capture stopped with a remainder after a frame was sent, and nothing is in flight
C10_Witness ==
    /\ ~isListening
    /\ nStarts > 0
    /\ lastRemainder > 0
    /\ Len(wire) > 0
    /\ recorderPort = <<>>

\* C11: a send of audio or text attempted while the socket is not open puts nothing
\* on the wire and is not queued: no dropped attempt is ever on the wire, also after
\* a reconnect, and the wire holds exactly the attempts that were not dropped.
C11_DropWhileClosed ==
    /\ Len(wireLog) = Len(wire)
    /\ \A i \in 1..Len(wireLog) : wireLog[i].seq \notin dropped
    /\ Len(wire) = nOut - Cardinality(dropped)

\* an attempt was dropped, the session reconnected, and a later attempt went out
C11_Witness ==
    /\ wsReadyState = "OPEN"
    /\ \E i \in 1..Len(wireLog) :
        /\ wireLog[i].socket > 1
        /\ \E d \in dropped : d < wireLog[i].seq

\* C12: when a recorder's frame reaches the send handler while the socket is not
\* open, the frame is dropped and the drop is reported through an observer
\* notification in that step.
C12_DropNotified ==
    [][(dropped' # dropped /\ nTexts' = nTexts) => nStatus' > nStatus]_vars

\* C13: while a reconnect timer is pending after the k-th consecutive close, its
\* delay is min(3000 * k, 15000) ms.
C13_Backoff ==
    reconnectTimers > 0 => reconnectDelay = Min(3000 * closesSinceOpen, 15000)

\* C14: after max consecutive failed connection attempts (max = 3 here) no reconnect
\* is scheduled and the reported status is the terminal "unavailable".
C14_Exhaustion ==
    closesSinceOpen >= 3 => (reconnectTimers = 0 /\ status = "unavailable")

\* C15: a WebSocket is replaced only once it has closed, so at most one is connecting
\* or open, and every message sent went to a socket that was open at send().
C15_OneChannel ==
    /\ superseded \subseteq {"CLOSED"}
    /\ wsReadyState \in {"CONNECTING", "OPEN"} => reconnectTimers = 0
    /\ \A i \in 1..Len(wireLog) : wireLog[i].readyState = "OPEN"
    /\ \A i \in 1..Len(wireLog) : \A j \in i..Len(wireLog) :
        wireLog[i].socket <= wireLog[j].socket

\* two sockets were replaced and a message went out on a later one
C15_Witness ==
    /\ nSockets = 3
    /\ superseded # {}
    /\ \E i \in 1..Len(wireLog) : wireLog[i].socket > 1

\* C16: in every reachable state capture is active (isListening) only while the
\* socket is open.
C16_ListeningOnlyOpen == isListening => wsReadyState = "OPEN"

\* C17: a start call begins capture (makes its recorder) only once the socket is
\* open, never while it is connecting or closed.
C17_DeferredStart == [][recorders' # recorders => wsReadyState = "OPEN"]_vars

\* C18: stopListening(), in any connection state, stops the tracks of the held
\* stream, closes the held capture context, clears the stream, context and recorder
\* references and leaves isListening false.
C18_StopReleases ==
    [][nStops' > nStops =>
        /\ captureStream \notin liveStreams'
        /\ captureContext \notin openContexts'
        /\ captureStream' = 0
        /\ captureContext' = 0
        /\ ~recorderNode'
        /\ ~isListening']_vars

\* capture was stopped with the socket closed and with it open, and the latest stop
\* left no reference and no live stream
C18_Witness ==
    /\ {"CLOSED", "OPEN"} \subseteq stoppedIn
    /\ ~isListening
    /\ captureStream = 0
    /\ liveStreams = {}
    /\ nDevices > 0

\* C19: once stopListening() has returned and no start has been made since, no
\* further audio frame is sent, also when a frame was still in flight.
C19_StopCancels ==
    [][(nStops > 0 /\ ~isListening /\ startCalls = {} /\ Len(wire') > Len(wire))
        => wire'[Len(wire')].kind # "binary"]_vars

\* C20: capture starts are serialized: at most one startListening() call is pending
\* at any time.
C20_Serialized == Cardinality(startCalls) <= 1

\* callbacks invoked for message number i
CallsFor(i) == SelectSeq(callLog, LAMBDA c : c.msg = i)

\* a text is JSON when it is the literal null or a closed object of members
IsJsonText(text) ==
    \/ text = <<<<"null">>>>
    \/ /\ Len(text) >= 2
       /\ text[1] = <<"{">>
       /\ text[Len(text)] = <<"}">>
       /\ \A i \in 2..(Len(text) - 1) : Len(text[i]) = 2

\* C21: a text message that is not valid JSON is discarded: its step invokes no
\* observer callback and changes nothing of the connection, capture and playback
\* state, and a later message of a handled type still gets its callback.
C21_InvalidJsonDiscarded ==
    [][Len(inbound') > Len(inbound) =>
        LET text == inbound'[Len(inbound')] IN
        /\ ~IsJsonText(text) =>
            /\ callLog' = callLog
            /\ UNCHANGED <<wsVars, playbackSide, captureSide, sessionSide>>
        /\ (IsJsonText(text) /\ <<"type", "tool_call">> \in {text[i] : i \in 1..Len(text)}) =>
            Len(callLog') = Len(callLog) + 1]_vars

\* a text that is not JSON was received, and the message after it was dispatched
C21_Witness ==
    /\ Len(inbound) = 2
    /\ ~IsJsonText(inbound[1])
    /\ Len(CallsFor(1)) = 0
    /\ Len(CallsFor(2)) = 1

\* the event types the protocol names
ProtocolTypes ==
    {"voice_ready", "input_transcription", "output_transcription", "transcription",
     "tool_call", "tool_result", "error"}

\* C22: every received control message of a protocol type has invoked exactly one
\* observer callback, the matching one for the transcription and tool types, and a
\* message of any other type has invoked none.
C22_Dispatch ==
    \A i \in 1..Len(inbound) :
        LET text == inbound[i]
            members == SubSeq(text, 2, Len(text) - 1)
            type == Field(members, "type")
            data == Field(members, "data")
            calls == CallsFor(i)
        IN  (IsJsonText(text) /\ text # <<<<"null">>>>) =>
            /\ type \in ProtocolTypes => Len(calls) = 1
            /\ type \notin ProtocolTypes => Len(calls) = 0
            /\ (type = "input_transcription" /\ Len(calls) = 1) =>
                calls[1].call = Call("onTranscription", <<data, Field(members, "partial")>>)
            /\ (type = "output_transcription" /\ Len(calls) = 1) =>
                calls[1].call = Call("onOutputTranscription", <<data>>)
            /\ (type = "transcription" /\ Len(calls) = 1) =>
                calls[1].call = IF Field(members, "is_output") = "true"
                                THEN Call("onOutputTranscription", <<data>>)
                                ELSE Call("onTranscription", <<data, "false">>)
            /\ (type \in {"tool_call", "tool_result"} /\ Len(calls) = 1) =>
                calls[1].call.cb = "onToolEvent"


\* a step in which a call suspended at getUserMedia() ends without a stream
MicrophoneFailed ==
    \E call \in startCalls :
        /\ call.pc = "getUserMedia"
        /\ \A other \in startCalls' : other.id # call.id

\* C23: when getUserMedia() fails for a call, the observer is notified with the
\* microphone status, isListening is left as it was (false whenever no call has got a
\* stream), no device is acquired and no new call to startListening is made.
C23_DeviceError ==
    [][MicrophoneFailed =>
          /\ nStatus' = nStatus + 1
          /\ status' = "Microphone access denied"
          /\ isListening' = isListening
          /\ (nDevices = 0 => ~isListening')
          /\ nDevices' = nDevices
          /\ nStartCalls' = nStartCalls
          /\ startCalls' \subseteq startCalls
          /\ UNCHANGED <<captureStream, captureContext, liveStreams, recorders>>]_vars

\* the only call has failed at getUserMedia(): reported, nothing acquired, not listening
C23_Witness ==
    /\ status = "Microphone access denied"
    /\ nStartCalls = 1
    /\ startCalls = {}
    /\ nDevices = 0
    /\ ~isListening


\* C24: every change of the connection state (an attempt starts, the channel opens,
\* the channel drops) is reported to the observer by a call of onStatusChange.
C24_EveryTransitionReported ==
    [][wsReadyState' # wsReadyState => nStatus' = nStatus + 1]_vars


\* round(n * 16000 / rate), halves rounded up
ExpectedCount(n, rate) == (2 * n * targetSampleRate + rate) \div (2 * rate)

\* the run of the downsampling loop over the first n input samples as one block
OneBlock(n) ==
    ResampleLoop(MicBlockOf(0, n), 1, n,
                 [sampleIndex |-> 0, pushed |-> <<>>, taken |-> <<>>])

\* C25: at a device rate of 44100, 48000 or 16000 Hz, after N input samples delivered
\* in blocks of any lengths the recorder has pushed round(N * 16000 / rate) samples
\* give or take one, and exactly the samples, with the same index carried on, that one
\* block of N samples gives.
C25_ResamplerRate ==
    (recorderNode /\ sourceSampleRate \in {44100, 48000, 16000}) =>
        /\ Abs(Len(resampled) - ExpectedCount(inputPos, sourceSampleRate)) <= 1
        /\ resampled = OneBlock(inputPos).pushed
        /\ sampleIndex = OneBlock(inputPos).sampleIndex

\* 441 samples at 44100 Hz have arrived in seven blocks of 63, and 159 were pushed
C25_Witness ==
    /\ recorderNode
    /\ sourceSampleRate = 44100
    /\ inputPos = 441
    /\ nCallbacks = 7
    /\ Len(resampled) = 159


\* C26: every sample the recorder pushes in a step lies in [-32768, 32767] and so does
\* every sample of a frame it posts in a step; a sample converted from an input of 1.0
\* or more is 32767 and one converted from an input of -1.0 or less is -32768 (inputs
\* and pushed numbers in quarters, frame elements whole).
C26_Amplitude ==
    [][/\ Len(sampled') = Len(resampled')
       /\ \A i \in (Len(resampled) + 1)..Len(resampled') :
             /\ resampled'[i] >= -32768 * 4
             /\ resampled'[i] <= 32767 * 4
             /\ sampled'[i] >= 4 => resampled'[i] = 32767 * 4
             /\ sampled'[i] <= -4 => resampled'[i] = -32768 * 4
       /\ \A f \in (Len(emitted) + 1)..Len(emitted') : \A i \in 1..Len(emitted'[f]) :
             LET x == sampled'[(f - 1) * chunkSize + i] IN
             /\ emitted'[f][i] >= -32768
             /\ emitted'[f][i] <= 32767
             /\ x >= 4 => emitted'[f][i] = 32767
             /\ x <= -4 => emitted'[f][i] = -32768]_vars

\* a posted frame holds samples converted from inputs of 1.0, 1.5, -1.0 and -2.0
C26_Witness ==
    /\ Len(emitted) >= 1
    /\ \A x \in {4, 6, -4, -8} :
          \E i \in 1..Len(emitted[1]) :
              /\ sampled[i] = x
              /\ emitted[1][i] = IF x > 0 THEN 32767 ELSE -32768


\* C27: while a frame of k*n samples that was enqueued into an empty buffer is drained
\* by pulls of n samples, the j-th pull (j <= k) outputs the frame's j-th block of n
\* converted samples with no padding, and the (k+1)-th pull outputs only zeros.
C27_Drain ==
    drain.n > 0 =>
        LET n == drain.n
            k == Len(drain.frame) \div n
        IN \A j \in 1..Len(drain.outs) :
              /\ Len(drain.outs[j]) = n
              /\ \A i \in 1..n :
                    IF j <= k
                    THEN /\ drain.outs[j][i].src = drain.frame[(j - 1) * n + i].src
                         /\ drain.outs[j][i].src # 0
                         /\ drain.outs[j][i].v = Frac(drain.frame[(j - 1) * n + i].s, 32768)
                    ELSE drain.outs[j][i] = Silence

\* a frame of two samples has been drained by two pulls of one sample, and a third
\* pull has run
C27_Witness ==
    /\ Len(drain.frame) = 2
    /\ drain.n = 1
    /\ Len(drain.outs) = 3


\* C28: the url of every WebSocket the manager has made, the constructor's and every
\* reconnect's, ends in one and the same session identifier: the one the manager holds
\* since its construction.
C28_SessionIdentity ==
    /\ Len(socketUrls) = nSockets
    /\ \A i \in 1..Len(socketUrls) :
          /\ socketUrls[i][Len(socketUrls[i])] = sessionId
          /\ socketUrls[i] = socketUrls[1]
          /\ sessionId \in SessionIds

\* the third WebSocket of the session has been made
C28_Witness ==
    /\ Len(socketUrls) = 3
    /\ closesSinceOpen >= 1
    /\ wsReadyState = "CONNECTING"


\* a step of _openTopic for a page that is not cached, taken while a tab exists
OpenedUncached ==
    /\ nTabCalls' = nTabCalls + 1
    /\ lastTabCall'.op = "openTopic"
    /\ ~lastTabCall'.flag
    /\ tabs # <<>>

\* a step in which the request of such a call completes with a page or an error
BackgroundCompleted ==
    /\ nTabCalls' = nTabCalls + 1
    /\ lastTabCall'.op \in {"encyclopedia_page", "error", "rejected"}
    /\ ~lastTabCall'.flag

\* C29: opening a topic whose page is not cached while a tab exists appends one
\* loading tab and leaves the active tab as it was; the arrival of the page or of the
\* error of such a request leaves the active tab as it was.
C29_BackgroundLoad ==
    [][/\ OpenedUncached =>
            /\ Len(tabs') = Len(tabs) + 1
            /\ SubSeq(tabs', 1, Len(tabs)) = tabs
            /\ tabs'[Len(tabs')].loading
            /\ activeTabId' = activeTabId
       /\ BackgroundCompleted => activeTabId' = activeTabId]_vars


\* the statuses that say the channel is connected or ready
ReadyStatuses == {"Connected - click mic to speak", "Click mic to speak"}

C31_RetainedBelowChunk == Len(recorderBuffer) < 1600

\* a recorder at 8000 Hz has posted a frame and retains the samples pushed after it
C31_Witness ==
    /\ sourceSampleRate = 8000
    /\ Len(emitted) = 1
    /\ Len(recorderBuffer) = 64
    /\ nCallbacks = 13


\* C32: a close of the voice socket is followed by a new connection attempt (while the
\* session may still make sockets), a new socket is made only by the one timer a close
\* has set, and the attempt ends connected when the peer accepts it, or closed again.
C32_AutoRecovery ==
    /\ \A k \in 1..(MaxSockets - 1) :
          (wsReadyState = "CLOSED" /\ nSockets = k)
              ~> (wsReadyState = "CONNECTING" /\ nSockets = k + 1)
    /\ \A k \in 1..(MaxSockets - 1) :
          (wsReadyState = "CLOSED" /\ nSockets = k)
              ~> (nSockets = k + 1 /\ (isConnected \/ wsReadyState = "CLOSED"))
    /\ [][/\ nSockets' # nSockets =>
                /\ nSockets' = nSockets + 1
                /\ wsReadyState = "CLOSED"
                /\ reconnectTimers = 1
                /\ reconnectTimers' = 0
          /\ (wsReadyState # "CLOSED" /\ wsReadyState' = "CLOSED") => reconnectTimers' = 1
          /\ (wsReadyState = "CONNECTING" /\ wsReadyState' = "OPEN") => isConnected']_vars

\* an open connection dropped, the second socket was made and accepted, and the user
\* did nothing meanwhile
C32_Witness ==
    /\ nSockets = 2
    /\ isConnected
    /\ wsReadyState = "OPEN"
    /\ nStatus = 3
    /\ nStarts = 0
    /\ nOut = 0


\* C33: once destroy() has been called no WebSocket is made, isConnected does not turn
\* true and isListening does not turn true.
C33_TeardownFinal ==
    [][destroyed =>
          /\ nSockets' = nSockets
          /\ isConnected' => isConnected
          /\ isListening' => isListening]_vars


\* C34: every microphone stream that is live is the one this.captureStream refers to,
\* so that a stopListening() releases every live stream.
C34_NoOrphanedCapture ==
    /\ liveStreams \subseteq {captureStream}
    /\ (nStops > 0 /\ startCalls = {} /\ captureStream = 0) => liveStreams = {}


\* the accumulator, held in units of 1/16000, is below max(1, rate / 16000); at a rate
\* whose ratio is stored rounded up, the index that equals the exact ratio is below
\* the stored one
BelowBound(index, rate) ==
    \/ index < (IF rate > targetSampleRate THEN rate ELSE targetSampleRate)
    \/ rate % 125 # 0 /\ index = rate

\* C35: at every device rate, those below 16000 Hz included, the accumulator is in
\* [0, max(1, rate / 16000)) after the input samples given so far, and no more samples
\* were pushed than were given.
C35_AccumulatorBounded ==
    recorderNode =>
        /\ sampleIndex >= 0
        /\ BelowBound(sampleIndex, sourceSampleRate)
        /\ Len(resampled) <= inputPos


\* C36: isConnected is true exactly while the current socket has fired open and not yet
\* fired close; it is false while the socket is connecting, and no socket is replaced
\* while it could still fire open or hold the flag.
C36_ConnectedIffOpen ==
    /\ isConnected <=> wsReadyState = "OPEN"
    /\ superseded \subseteq {"CLOSED"}

\* the first socket opened and closed, and its replacement is still connecting
C36_Witness ==
    /\ nSockets = 2
    /\ wsReadyState = "CONNECTING"
    /\ ~isConnected
    /\ nStatus = 2
    /\ nStarts = 0
    /\ superseded = {"CLOSED"}


\* C37: after any sequence of open-topic, page-received, switch-tab, close-tab and fetch
\* completions, activeTabId is null exactly when there are no tabs, and otherwise it is
\* the id of a tab in the list.
C37_ActiveTab ==
    /\ activeTabId = 0 <=> tabs = <<>>
    /\ activeTabId # 0 => FindTab(tabs, activeTabId) # 0


\* the tab shown was closed and a tab that opened in the background, still loading,
\* took its place
C37_Witness ==
    /\ Len(tabs) = 1
    /\ tabs[1].loading
    /\ activeTabId = tabs[1].id
    /\ lastTabCall.op = "closeTab"
    /\ lastTabCall.tabId # tabs[1].id
    /\ \E f \in fetches : f.tabId = tabs[1].id /\ ~f.first


\* C38: no two open tabs have the same topic up to case, whether they come from a
\* request, from the cache or from a page pushed while the topic is loading.
C38_OneTabPerTopic ==
    \A i, j \in 1..Len(tabs) :
        i # j => LowerCase(tabs[i].topic) # LowerCase(tabs[j].topic)

\* a page was pushed under a topic that differs only in case from a tab still loading
C38_Witness ==
    /\ lastTabCall.op = "pageReceived"
    /\ lastTabCall.flag
    /\ \E i \in 1..Len(tabs) :
          /\ tabs[i].loading
          /\ tabs[i].topic # lastTabCall.topic
          /\ LowerCase(tabs[i].topic) = LowerCase(lastTabCall.topic)
          /\ activeTabId = tabs[i].id
    /\ Len(tabs) = 2


\* C39: no two tabs in the list share an id, also when both were created within one
\* millisecond of the clock.
C39_UniqueTabIds ==
    \A i, j \in 1..Len(tabs) : i # j => tabs[i].id # tabs[j].id

====
